---- MODULE Spec2Model ----
(***************************************************************************)
(* A model of lecroyutils/control.py: the VBS command codec (_escape,      *)
(* _unpack_response), the session adapter LecroyComm (action, method, set, *)
(* read, wait_opc) and the raw binary retrieval of LecroyScope             *)
(* (_screenshot_raw, _waveform_raw).                                       *)
(*                                                                         *)
(* Text that the code inspects character by character (response lines,     *)
(* source names) is a sequence of one-character strings; Str renders it.   *)
(* Command lines are strings.  Durations are integers, in milliseconds.    *)
(* A float k/1000 is the record FloatV(k).                                 *)
(***************************************************************************)
EXTENDS Integers, Sequences, FiniteSets, TLC

VARIABLES
    timeout,             \* self.scope.timeout, the session timeout (ms)
    baseline,            \* the session timeout as it was at construction (ms)
    pending,             \* replies the instrument owes and no read consumed yet
    available_channels,  \* LecroyScope.available_channels
    call,                \* the last call of the caller: inputs, traffic, outcome
    codec                \* a codec function's input and, once applied, its output

vars == <<timeout, baseline, pending, available_channels, call, codec>>

----------------------------------------------------------------------------
(* Bounds *)

MaxLen == 5        \* longest response line given to _unpack_response
MaxArgs == 2       \* longest argument list given to the codec
MaxDrift == 2      \* the session timeout stays within MaxDrift * 100 ms of the baseline
MaxPending == 2    \* most replies outstanding at once

----------------------------------------------------------------------------
(* Characters and text *)

Lower == <<"a","b","c","d","e","f","g","h","i","j","k","l","m",
           "n","o","p","q","r","s","t","u","v","w","x","y","z">>
Capital == <<"A","B","C","D","E","F","G","H","I","J","K","L","M",
             "N","O","P","Q","R","S","T","U","V","W","X","Y","Z">>
Digits == {"0","1","2","3","4","5","6","7","8","9"}

\* str.upper() on one character
UpperChar(c) ==
    IF \E i \in 1..Len(Lower) : Lower[i] = c
    THEN Capital[CHOOSE i \in 1..Len(Lower) : Lower[i] = c]
    ELSE c

\* str.upper()
Upper(s) == [i \in 1..Len(s) |-> UpperChar(s[i])]

\* res[:n]
Take(s, n) == SubSeq(s, 1, IF Len(s) < n THEN Len(s) ELSE n)

\* res[n:]
Drop(s, n) == SubSeq(s, n + 1, Len(s))

RECURSIVE Str(_)
\* the text as one string, as an f-string substitutes it
Str(s) == IF s = <<>> THEN "" ELSE Head(s) \o Str(Tail(s))

VBSPrefix == <<"V","B","S"," ">>

----------------------------------------------------------------------------
(* VBSValue = Union[str, int, float]; bool is a subclass of int.  NoneV is *)
(* Python's None, the default of method's timeout parameter.               *)

StrV(s) == [tag |-> "str", s |-> s, n |-> 0]
IntV(n) == [tag |-> "int", s |-> "", n |-> n]
BoolV(b) == [tag |-> "bool", s |-> "", n |-> IF b THEN 1 ELSE 0]
FloatV(k) == [tag |-> "float", s |-> "", n |-> k]
NoneV == [tag |-> "none", s |-> "", n |-> 0]

\* the number in milliseconds, as it enters timeout + old_timeout
Millis(v) == IF v.tag = "float" THEN v.n ELSE v.n * 1000

DigitStr == <<"0","1","2","3","4","5","6","7","8","9">>

RECURSIVE NatRepr(_)
NatRepr(n) ==
    IF n < 10 THEN DigitStr[n + 1]
    ELSE NatRepr(n \div 10) \o DigitStr[(n % 10) + 1]

\* repr of an int
IntRepr(n) == IF n < 0 THEN "-" \o NatRepr(0 - n) ELSE NatRepr(n)

\* the digits after the point of |k|/1000, shortest form
FracRepr(f) ==
    IF f % 100 = 0 THEN DigitStr[(f \div 100) + 1]
    ELSE IF f % 10 = 0 THEN DigitStr[(f \div 100) + 1] \o DigitStr[((f \div 10) % 10) + 1]
    ELSE DigitStr[(f \div 100) + 1] \o DigitStr[((f \div 10) % 10) + 1]
             \o DigitStr[(f % 10) + 1]

\* repr of the float k/1000 (no exponent form in this range)
FloatRepr(k) ==
    LET a == IF k < 0 THEN 0 - k ELSE k
    IN  (IF k < 0 THEN "-" ELSE "") \o NatRepr(a \div 1000) \o "." \o FracRepr(a % 1000)

\* repr(value) for a value that is not a str
Repr(v) ==
    CASE v.tag = "bool" -> (IF v.n = 1 THEN "True" ELSE "False")
      [] v.tag = "int" -> IntRepr(v.n)
      [] v.tag = "float" -> FloatRepr(v.n)
      [] v.tag = "none" -> "None"

_escape(value) ==
    IF value.tag = "str" THEN "\"" \o value.s \o "\"" ELSE Repr(value)

\* variant: the prefix is compared as it stands, without upper()
_unpack_response_CaseSensitive(res) ==
    IF Take(res, 4) = VBSPrefix THEN Drop(res, 4) ELSE res

_unpack_response(res) ==
    IF Upper(Take(res, 4)) = VBSPrefix THEN Drop(res, 4) ELSE res

RECURSIVE JoinComma_NoSpace(_)
\* variant: ','.join(parts)
JoinComma_NoSpace(parts) ==
    IF parts = <<>> THEN ""
    ELSE IF Len(parts) = 1 THEN parts[1]
    ELSE parts[1] \o "," \o JoinComma_NoSpace(Tail(parts))

RECURSIVE JoinComma(_)
\* ', '.join(parts)
JoinComma(parts) ==
    IF parts = <<>> THEN ""
    ELSE IF Len(parts) = 1 THEN parts[1]
    ELSE parts[1] \o ", " \o JoinComma(Tail(parts))

\* ', '.join(map(_escape, args))
ArgString(args) == JoinComma([i \in 1..Len(args) |-> _escape(args[i])])

----------------------------------------------------------------------------
(* The command lines of LecroyComm *)

ActionLine(action) == "VBS '" \o action \o "'"
MethodLine(method, args) == "VBS? 'return = " \o method \o "(" \o ArgString(args) \o ")'"
SetLine(var, value) == "VBS '" \o var \o " = " \o _escape(value) \o "'"
ReadLine(var) == "VBS? 'return = " \o var \o "'"
OpcLine == "*OPC?"

----------------------------------------------------------------------------
(* The transport session (vxi11.Instrument) as the adapter uses it.  A     *)
(* handler is the sequence of steps its code takes; a write or a read may  *)
(* raise, and the exception leaves the handler at that step.               *)

SetTimeoutStep(v) == [op |-> "set_timeout", line |-> "", val |-> v, q |-> FALSE]
\* q: the instrument answers this line with one reply
WriteStep(line, q) == [op |-> "write", line |-> line, val |-> 0, q |-> q]
ReadStep == [op |-> "read", line |-> "", val |-> 0, q |-> FALSE]
ReadRawStep == [op |-> "read_raw", line |-> "", val |-> 0, q |-> FALSE]

NoFault == [at |-> 0, kind |-> "ok"]

\* where the transport may raise in a handler: any write (failure), any read
\* (failure or timeout)
Faults(prog) ==
    {NoFault}
    \cup {[at |-> i, kind |-> "fail"] :
            i \in {j \in 1..Len(prog) : prog[j].op \in {"write", "read", "read_raw"}}}
    \cup {[at |-> i, kind |-> "timeout"] :
            i \in {j \in 1..Len(prog) : prog[j].op \in {"read", "read_raw"}}}

\* the steps that ran to their end
Done(prog, f) == IF f.at = 0 THEN Len(prog) ELSE f.at - 1

RECURSIVE TimeoutAfter(_, _, _)
\* self.scope.timeout after the first n steps
TimeoutAfter(prog, n, t0) ==
    IF n = 0 THEN t0
    ELSE IF prog[n].op = "set_timeout" THEN prog[n].val
    ELSE TimeoutAfter(prog, n - 1, t0)

\* variant: the exception of a step is swallowed and the later steps still run
Traffic_Continue(prog, f, t0, reply, blob) ==
    [i \in 1..Len(prog) |->
        [op |-> prog[i].op, line |-> prog[i].line, val |-> prog[i].val, q |-> prog[i].q,
         tmo |-> TimeoutAfter(prog, i - 1, t0),
         st |-> IF i = f.at THEN f.kind ELSE "ok",
         text |-> IF prog[i].op = "read" /\ i # f.at THEN reply ELSE <<>>,
         raw |-> IF prog[i].op = "read_raw" /\ i # f.at THEN blob ELSE <<>>]]

\* what the session saw: each step entered, the timeout in force when it was
\* entered, how it ended and what a read delivered
Traffic(prog, f, t0, reply, blob) ==
    [i \in 1..(IF f.at = 0 THEN Len(prog) ELSE f.at) |->
        [op |-> prog[i].op, line |-> prog[i].line, val |-> prog[i].val, q |-> prog[i].q,
         tmo |-> TimeoutAfter(prog, i - 1, t0),
         st |-> IF i = f.at THEN f.kind ELSE "ok",
         text |-> IF prog[i].op = "read" /\ i # f.at THEN reply ELSE <<>>,
         raw |-> IF prog[i].op = "read_raw" /\ i # f.at THEN blob ELSE <<>>]]

RECURSIVE PendingAfter(_, _, _)
\* replies outstanding after the first n entries of the traffic
PendingAfter(log, n, p0) ==
    IF n = 0 THEN p0
    ELSE LET p == PendingAfter(log, n - 1, p0)
             e == log[n]
         IN  IF e.op = "write" /\ e.st = "ok" /\ e.q THEN p + 1
             ELSE IF e.op \in {"read", "read_raw"} /\ e.st = "ok" /\ p > 0 THEN p - 1
             ELSE p

----------------------------------------------------------------------------
(* The handlers' steps *)

\* LecroyComm.action
ActionProg(action) == <<WriteStep(ActionLine(action), FALSE)>>

\* variant: the timeout parameter defaults to 0.1 instead of None
MethodProg_DefaultExtension(old_timeout, method, args, ext) ==
    <<SetTimeoutStep(Millis(IF ext = NoneV THEN FloatV(100) ELSE ext) + old_timeout)>>
    \o <<WriteStep(MethodLine(method, args), TRUE), ReadStep, SetTimeoutStep(old_timeout)>>

\* variant: the line is written before the extended timeout is installed
MethodProg_WriteFirst(old_timeout, method, args, ext) ==
    <<WriteStep(MethodLine(method, args), TRUE)>>
    \o (IF ext # NoneV THEN <<SetTimeoutStep(Millis(ext) + old_timeout)>> ELSE <<>>)
    \o <<ReadStep, SetTimeoutStep(old_timeout)>>

\* LecroyComm.method
MethodProg(old_timeout, method, args, ext) ==
    (IF ext # NoneV THEN <<SetTimeoutStep(Millis(ext) + old_timeout)>> ELSE <<>>)
    \o <<WriteStep(MethodLine(method, args), TRUE), ReadStep, SetTimeoutStep(old_timeout)>>

\* variant: set reads a reply after its write
SetProg_ReadsReply(var, value) == <<WriteStep(SetLine(var, value), FALSE), ReadStep>>

\* LecroyComm.set
SetProg(var, value) == <<WriteStep(SetLine(var, value), FALSE)>>

\* LecroyComm.read
ReadProg(var) == <<WriteStep(ReadLine(var), TRUE), ReadStep>>

\* LecroyComm.wait_opc
WaitOpcProg == <<WriteStep(OpcLine, TRUE), ReadStep>>

\* bool(s) of a str
Truthy(s) == s # <<>>

\* the condition of wait_opc's assert: opc == '1' or '*OPC 1'
OpcAccepted(opc) == (opc = <<"1">>) \/ Truthy(<<"*","O","P","C"," ","1">>)

HcsuLine == "HCSU DEV, PNG, FORMAT, PORTRAIT, BCKG, WHITE, DEST, REMOTE, PORT, NET, AREA, GRIDAREAONLY"

\* variant: the capture command goes out before the configuration line
ScreenshotProg_CaptureFirst == <<WriteStep("SCDP", TRUE), WriteStep(HcsuLine, FALSE), ReadRawStep>>

\* LecroyScope._screenshot_raw
ScreenshotProg == <<WriteStep(HcsuLine, FALSE), WriteStep("SCDP", TRUE), ReadRawStep>>

\* variant: the checked, upper-cased name is put on the wire
WaveformProg_UpperName(source) == <<WriteStep(Str(Upper(source)) \o ":WF?", TRUE), ReadRawStep>>

\* LecroyScope._waveform_raw, after check_source
WaveformProg(source) == <<WriteStep(Str(source) \o ":WF?", TRUE), ReadRawStep>>

\* what a handler hands back
Ret(kind, text, raw, b) ==
    [outcome |-> "returned", err |-> "", rkind |-> kind, rtext |-> text, rraw |-> raw, rbool |-> b]
Raise(err) ==
    [outcome |-> "raised", err |-> err, rkind |-> "none", rtext |-> <<>>, rraw |-> <<>>, rbool |-> FALSE]

\* variant: the reply is unpacked twice
ReadResult_UnpackTwice(reply) ==
    Ret("text", _unpack_response(_unpack_response(reply)), <<>>, FALSE)

\* return _unpack_response(self.scope.read())
ReadResult(reply) == Ret("text", _unpack_response(reply), <<>>, FALSE)
\* response = _unpack_response(self.scope.read()) ... return response
MethodResult(reply) == Ret("text", _unpack_response(reply), <<>>, FALSE)
\* return self._comm.scope.read_raw()
RawResult(blob) == Ret("raw", <<>>, blob, FALSE)
\* wait_opc returns None unless the assert raises
WaitOpcResult(opc) == IF OpcAccepted(opc) THEN Ret("none", <<>>, <<>>, FALSE) ELSE Raise("AssertionError")
\* acquire: ... == '1'
AcquireResult(reply) == Ret("bool", <<>>, <<>>, _unpack_response(reply) = <<"1">>)

----------------------------------------------------------------------------
(* Construction: LecroyScope.__init__ reads app.ExecsNameAll and keeps the *)
(* names that match C\d.* as available_channels.                           *)

RECURSIVE Split(_)
\* str.split(',')
Split(s) ==
    IF \E i \in 1..Len(s) : s[i] = ","
    THEN LET i == CHOOSE j \in 1..Len(s) : s[j] = "," /\ \A k \in 1..(j - 1) : s[k] # ","
         IN  <<SubSeq(s, 1, i - 1)>> \o Split(SubSeq(s, i + 1, Len(s)))
    ELSE <<s>>

\* re.match(r"C\d.*", resource)
IsChannelName(r) == Len(r) >= 2 /\ r[1] = "C" /\ r[2] \in Digits

\* _parse_available_resources, the channels
ParseChannels(reply) == SelectSeq(Split(_unpack_response(reply)), IsChannelName)

\* x in list
InList(name, list) == \E i \in 1..Len(list) : list[i] = name

\* variant: every source name passes the check
SourceAvailable_Any(source, channels) == TRUE

\* LecroyScope.check_channel: channel.upper() in self.available_channels
SourceAvailable(source, channels) == InList(Upper(source), channels)

----------------------------------------------------------------------------
(* Inputs of the calls and answers of the instrument *)

InitTimeouts == {2000, 10000}

ExecsReplies ==
    { <<"C","1",",","C","2",",","P","1">>,
      <<"V","B","S"," ","C","1",",","F","1">>,
      <<"P","1">> }

Statements == {"app.Measure.ClearSweeps", "app.SaveRecall.Waveform.SaveFile"}
Methods == {"app.WaitUntilIdle", "app.Acquisition.acquire"}
CallArgs == {<<>>, <<IntV(5)>>, <<FloatV(100), BoolV(FALSE)>>, <<StrV("Auto"), IntV(-12)>>}
Exts == {NoneV, IntV(0), FloatV(100), FloatV(200)}
Variables == {"app.SerialNumber", "app.Acquisition.Horizontal.horscale"}
SetValues == {FloatV(2), StrV("Auto"), IntV(5)}
AcquireTimeouts == {FloatV(100), FloatV(200)}
Sources == {<<"C","1">>, <<"c","1">>, <<"C","2">>, <<"C","3">>, <<"P","1">>}

Replies ==
    { <<>>, <<"1">>, <<"0">>,
      <<"*","O","P","C"," ","1">>,
      <<"E","R","R","O","R">>,
      <<"V","B","S"," ","S","N","1","2","3","4","5">>,
      <<"V","B","S"," ","V","B","S"," ","x">>,
      <<"v","b","s"," ","1">> }

\* raw blocks; the second spells "VBS " and then a zero byte
Blobs == {<<>>, <<86, 66, 83, 32, 0>>, <<35, 57, 0, 255>>}

IdleCodec == [fn |-> "", kind |-> "none", line |-> <<>>, path |-> "", args |-> <<>>,
              text |-> <<>>, wire |-> ""]

\* the inputs of a call
In(op, path, args, ext, src) == [op |-> op, path |-> path, args |-> args, ext |-> ext, src |-> src]

\* no call is in progress and the caller holds no outcome
NoCall ==
    In("", "", <<>>, NoneV, <<>>) @@ [pre |-> 0, prePending |-> 0, log |-> <<>>]
    @@ [outcome |-> "", err |-> "", rkind |-> "none", rtext |-> <<>>, rraw |-> <<>>, rbool |-> FALSE]

----------------------------------------------------------------------------
(* The state machine of the adapter *)

Init ==
    /\ timeout \in InitTimeouts
    /\ baseline = timeout
    /\ pending = 0
    /\ \E reply \in ExecsReplies :
         /\ available_channels = ParseChannels(reply)
         /\ call = In("__init__", "app.ExecsNameAll", <<>>, NoneV, <<>>)
                   @@ [pre |-> timeout, prePending |-> 0,
                       log |-> Traffic(ReadProg("app.ExecsNameAll"), NoFault, timeout, reply, <<>>)]
                   @@ Ret("none", <<>>, <<>>, FALSE)
    /\ codec = IdleCodec

\* the adapter is used by one caller, one call at a time: a call begins when
\* the previous one is over
Ready == call = NoCall

\* One whole call: the steps of prog run from the current session state until
\* the end or until the fault f; result is what the handler returns when no
\* step raises.
Perform(in, prog, f, reply, blob, result) ==
    LET log == Traffic(prog, f, timeout, reply, blob)
        res == IF f.at = 0 THEN result
               ELSE Raise(IF f.kind = "timeout" THEN "timeout" ELSE "transport")
    IN  /\ timeout' = TimeoutAfter(prog, Done(prog, f), timeout)
        /\ timeout' - baseline <= MaxDrift * 100
        /\ pending' = PendingAfter(log, Len(log), pending)
        /\ pending' <= MaxPending
        /\ call' = in @@ [pre |-> timeout, prePending |-> pending, log |-> log] @@ res
        /\ UNCHANGED <<baseline, available_channels, codec>>

\* the reply matters only when the read delivers it
RepliesFor(f) == IF f.at = 0 THEN Replies ELSE {<<>>}
BlobsFor(f) == IF f.at = 0 THEN Blobs ELSE {<<>>}

Action ==
    /\ Ready
    /\ \E a \in Statements :
         LET prog == ActionProg(a) IN
         \E f \in Faults(prog) :
           Perform(In("action", a, <<>>, NoneV, <<>>), prog, f, <<>>, <<>>, Ret("none", <<>>, <<>>, FALSE))

Method ==
    /\ Ready
    /\ \E m \in Methods, args \in CallArgs, ext \in Exts :
         LET prog == MethodProg(timeout, m, args, ext) IN
         \E f \in Faults(prog) : \E reply \in RepliesFor(f) :
           Perform(In("method", m, args, ext, <<>>), prog, f, reply, <<>>, MethodResult(reply))

Set ==
    /\ Ready
    /\ \E v \in Variables, x \in SetValues :
         LET prog == SetProg(v, x) IN
         \E f \in Faults(prog) :
           Perform(In("set", v, <<x>>, NoneV, <<>>), prog, f, <<>>, <<>>, Ret("none", <<>>, <<>>, FALSE))

Read ==
    /\ Ready
    /\ \E v \in Variables :
         LET prog == ReadProg(v) IN
         \E f \in Faults(prog) : \E reply \in RepliesFor(f) :
           Perform(In("read", v, <<>>, NoneV, <<>>), prog, f, reply, <<>>, ReadResult(reply))

WaitOpc ==
    /\ Ready
    /\ LET prog == WaitOpcProg IN
       \E f \in Faults(prog) : \E reply \in RepliesFor(f) :
         Perform(In("wait_opc", "", <<>>, NoneV, <<>>), prog, f, reply, <<>>, WaitOpcResult(reply))

\* LecroyScope.acquire
Acquire ==
    /\ Ready
    /\ \E t \in AcquireTimeouts, force \in BOOLEAN :
         LET args == <<t, BoolV(force)>>
             prog == MethodProg(timeout, "app.Acquisition.acquire", args, t)
         IN  \E f \in Faults(prog) : \E reply \in RepliesFor(f) :
               Perform(In("acquire", "app.Acquisition.acquire", args, t, <<>>), prog, f, reply, <<>>,
                       AcquireResult(reply))

ScreenshotRaw ==
    /\ Ready
    /\ LET prog == ScreenshotProg IN
       \E f \in Faults(prog) : \E blob \in BlobsFor(f) :
         Perform(In("_screenshot_raw", "", <<>>, NoneV, <<>>), prog, f, <<>>, blob, RawResult(blob))

WaveformRaw ==
    /\ Ready
    /\ \E source \in Sources :
         IF SourceAvailable(source, available_channels)
         THEN LET prog == WaveformProg(source) IN
              \E f \in Faults(prog) : \E blob \in BlobsFor(f) :
                Perform(In("_waveform_raw", "", <<>>, NoneV, source), prog, f, <<>>, blob, RawResult(blob))
         ELSE Perform(In("_waveform_raw", "", <<>>, NoneV, source), <<>>, NoFault, <<>>, <<>>,
                      Raise("Channel not available"))

----------------------------------------------------------------------------
(* The validating setters of LecroyChannel and LecroyScope *)

\* the inputs of a call that takes a text value: the name it addresses and
\* the value
InVal(op, src, val) == In(op, "", <<>>, NoneV, src) @@ [val |-> val]

None_ == Ret("none", <<>>, <<>>, FALSE)

\* the list in LecroyChannel.coupling
ChannelCouplings == <<<<"D","C","5","0">>, <<"D","C","1","M">>, <<"A","C","1","M">>, <<"G","N","D">>, <<"D","C","1","0","0","k">>>>

CouplingInputs ==
    { <<"D","C","5","0">>, <<"d","c","5","0">>, <<"D","C","1","M">>, <<"A","C","1","M">>, <<"G","N","D">>, <<"g","n","d">>,
      <<"D","C","1","0","0","k">>, <<"D","C","1","0","0","K">>, <<"d","c","1","0","0","k">>, <<"A","C">> }

\* coupling.upper() in [...]
CouplingValid(coupling) == InList(Upper(coupling), ChannelCouplings)

\* self.comm.action('app.acquisition.' + self.name + '.Coupling = "' + coupling.upper() + '"')
CouplingProg(name, coupling) ==
    ActionProg("app.acquisition." \o Str(name) \o ".Coupling = \"" \o Str(Upper(coupling)) \o "\"")

\* LecroyChannel.coupling (setter), on the channel made for available_channels[i]
CouplingSetter ==
    /\ Ready
    /\ \E i \in 1..Len(available_channels), c \in CouplingInputs :
         LET name == Upper(available_channels[i]) IN
         IF CouplingValid(c)
         THEN LET prog == CouplingProg(name, c) IN
              \E f \in Faults(prog) :
                Perform(InVal("coupling", name, c), prog, f, <<>>, <<>>, None_)
         ELSE Perform(InVal("coupling", name, c), <<>>, NoFault, <<>>, <<>>, Raise("Invalid Coupling"))

\* what follows a validation: the steps after it run only when it passes
GuardedTail_Always(ok, tail) == tail

GuardedTail(ok, tail) == IF ok THEN tail ELSE <<>>

\* a setter that validates and then sends: steps, then the outcome
Validated(in, head, ok, tail, err, reply) ==
    LET prog == head \o GuardedTail(ok, tail) IN
    \E f \in Faults(prog) :
      Perform(in, prog, f, reply, <<>>, IF ok THEN None_ ELSE Raise(err))

TriggerSourceInputs == { <<"C","1">>, <<"c","1">>, <<"C","3">>, <<"E","X","T">>, <<"e","x","t">>, <<"L","I","N","E">>, <<"P","1">> }

\* LecroyScope.trigger_source (setter)
TriggerSourceSetter ==
    /\ Ready
    /\ \E source \in TriggerSourceInputs :
         Validated(InVal("trigger_source", <<>>, source), <<>>,
                   InList(Upper(source), <<<<"E","X","T">>, <<"L","I","N","E">>>>)
                       \/ SourceAvailable(source, available_channels),
                   SetProg("app.Acquisition.Trigger.Source", StrV(Str(Upper(source)))),
                   "Channel not available", <<>>)

MemoryModes == <<<<"S","E","T","M","A","X","I","M","U","M","M","E","M","O","R","Y">>,
                 <<"F","I","X","E","D","S","A","M","P","L","E","R","A","T","E">>>>

MemoryModeInputs ==
    { <<"S","e","t","M","a","x","i","m","u","m","M","e","m","o","r","y">>,
      <<"F","I","X","E","D","S","A","M","P","L","E","R","A","T","E">>,
      <<"f","i","x","e","d","s","a","m","p","l","e","r","a","t","e">>,
      <<"A","u","t","o">> }

\* self._comm.set('app.Acquisition.Horizontal.maximize', maximize.upper())
MemoryModeProg(maximize) ==
    SetProg("app.Acquisition.Horizontal.maximize", StrV(Str(Upper(maximize))))

\* LecroyScope.memory_mode (setter)
MemoryModeSetter ==
    /\ Ready
    /\ \E maximize \in MemoryModeInputs :
         Validated(InVal("memory_mode", <<>>, maximize), <<>>,
                   InList(Upper(maximize), MemoryModes),
                   MemoryModeProg(maximize), "Invalid Memory mode", <<>>)

\* LecroyScope.trigger_source (getter)
TriggerSourceProg == ReadProg("app.Acquisition.Trigger.Source")

\* what the instrument names as the trigger source
TriggerSourceReplies ==
    { <<"C","1">>, <<"c","1">>, <<"V","B","S"," ","C","2">>, <<"E","X","T">>, <<"E","x","t">>, <<"L","I","N","E">>, <<"C","3">>, <<>> }

\* source.upper() in ['EXT', *self.available_channels]
TriggerSourceValid(source, channels) == InList(Upper(source), <<<<"E","X","T">>>> \o channels)

TriggerCouplingInputs == { <<"D","C">>, <<"a","c">>, <<"L","F","R","E","J">>, <<"H","F","R","E","J">>, <<"G","N","D">> }

\* LecroyScope.trigger_coupling (setter)
TriggerCouplingSetter ==
    /\ Ready
    /\ \E coupling \in TriggerCouplingInputs, reply \in TriggerSourceReplies :
         LET source == _unpack_response(reply)
             okSource == TriggerSourceValid(source, available_channels)
             okValue == Upper(coupling) \in {<<"D","C">>, <<"A","C">>, <<"L","F","R","E","J">>, <<"H","F","R","E","J">>}
         IN  Validated(InVal("trigger_coupling", <<>>, coupling), TriggerSourceProg,
                       okSource /\ okValue,
                       ActionProg("app.Acquisition.Trigger." \o Str(Upper(source))
                                  \o ".Coupling = \"" \o Str(Upper(coupling)) \o "\""),
                       IF okSource THEN "Trigger Coupling not valid" ELSE "Invalid channel",
                       reply)

TriggerImpedanceInputs == { <<"5","0">>, <<"1","M">>, <<"1","m">>, <<"7","5">> }

\* LecroyScope.trigger_impedance (setter)
TriggerImpedanceSetter ==
    /\ Ready
    /\ \E impedance \in TriggerImpedanceInputs, reply \in TriggerSourceReplies :
         LET source == _unpack_response(reply)
             okSource == TriggerSourceValid(source, available_channels)
             okValue == Upper(impedance) \in {<<"5","0">>, <<"1","M">>}
         IN  Validated(InVal("trigger_impedance", <<>>, impedance), TriggerSourceProg,
                       okSource /\ okValue,
                       ActionProg("app.Acquisition.Trigger." \o Str(Upper(source))
                                  \o ".InputImpedance = " \o Str(Upper(impedance)) \o ""),
                       IF okSource THEN "Trigger Impedance not valid" ELSE "Invalid channel",
                       reply)

TriggerLevels == {FloatV(100), IntV(0)}

\* LecroyScope.trigger_level (setter)
TriggerLevelSetter ==
    /\ Ready
    /\ \E level \in TriggerLevels, reply \in TriggerSourceReplies :
         LET source == _unpack_response(reply) IN
         Validated(In("trigger_level", "", <<level>>, NoneV, <<>>) @@ [val |-> <<>>],
                   TriggerSourceProg,
                   TriggerSourceValid(source, available_channels),
                   SetProg("app.Acquisition.Trigger." \o Str(source) \o ".Level", level),
                   "NotImplementedError", reply)

RECURSIVE Strip(_)
\* str.strip() of blanks, as float() does before it parses
Strip(s) ==
    IF s # <<>> /\ Head(s) = " " THEN Strip(Tail(s))
    ELSE IF s # <<>> /\ s[Len(s)] = " " THEN Strip(SubSeq(s, 1, Len(s) - 1))
    ELSE s

IsDigits(s) == \A i \in 1..Len(s) : s[i] \in Digits

RECURSIVE NatVal(_)
\* the number a run of digits spells
NatVal(s) ==
    IF s = <<>> THEN 0
    ELSE NatVal(SubSeq(s, 1, Len(s) - 1)) * 10
         + (CHOOSE d \in 0..9 : DigitStr[d + 1] = s[Len(s)])

\* float(text) for plain decimal text with at most three digits after the
\* point: ok is FALSE where float() raises ValueError, n is the value in
\* thousandths
ParseFloat(text) ==
    LET t == Strip(text)
        neg == t # <<>> /\ Head(t) = "-"
        u == IF t # <<>> /\ Head(t) \in {"-", "+"} THEN Tail(t) ELSE t
        dot == IF \E i \in 1..Len(u) : u[i] = "."
               THEN CHOOSE i \in 1..Len(u) : u[i] = "." /\ \A k \in 1..(i - 1) : u[k] # "."
               ELSE Len(u) + 1
        ip == SubSeq(u, 1, dot - 1)
        fp == SubSeq(u, dot + 1, Len(u))
        ok == IsDigits(ip) /\ IsDigits(fp) /\ Len(ip) + Len(fp) >= 1 /\ Len(fp) <= 3
        scale == CASE Len(fp) = 0 -> 1000 [] Len(fp) = 1 -> 100 [] Len(fp) = 2 -> 10 [] OTHER -> 1
        mag == IF ok THEN NatVal(ip) * 1000 + NatVal(fp) * scale ELSE 0
    IN  [ok |-> ok, n |-> IF neg THEN 0 - mag ELSE mag]

SampleRates == {IntV(5), FloatV(2500)}

\* what the instrument reports as its sample rate
SampleRateReplies ==
    { <<"5">>, <<"5",".","0">>, <<"V","B","S"," ","5">>, <<"2",".","5">>, <<" ","2",".","5","0">>, <<"1","0">>, <<"E","R","R","O","R">>, <<>> }

\* variant: the sample rate is assigned before the memory mode
SampleRateProg_RateFirst(sample_rate) ==
    SetProg("app.Acquisition.Horizontal.samplerate", sample_rate)
    \o MemoryModeProg(<<"F","I","X","E","D","S","A","M","P","L","E","R","A","T","E">>)
    \o ReadProg("app.Acquisition.Horizontal.samplerate")

\* LecroyScope.sample_rate (setter): memory_mode = 'FIXEDSAMPLERATE', the set,
\* then the getter
SampleRateProg(sample_rate) ==
    MemoryModeProg(<<"F","I","X","E","D","S","A","M","P","L","E","R","A","T","E">>)
    \o SetProg("app.Acquisition.Horizontal.samplerate", sample_rate)
    \o ReadProg("app.Acquisition.Horizontal.samplerate")

\* if self.sample_rate != float(sample_rate): raise
SampleRateResult(sample_rate, reply) ==
    LET got == ParseFloat(_unpack_response(reply)) IN
    IF ~got.ok THEN Raise("ValueError")
    ELSE IF got.n # Millis(sample_rate) THEN Raise("Invalid Sample Rate")
    ELSE None_

SampleRateSetter ==
    /\ Ready
    /\ \E sample_rate \in SampleRates, reply \in SampleRateReplies :
         LET prog == SampleRateProg(sample_rate) IN
         \E f \in Faults(prog) :
           Perform(In("sample_rate", "", <<sample_rate>>, NoneV, <<>>) @@ [val |-> <<>>],
                   prog, f, reply, <<>>, SampleRateResult(sample_rate, reply))

\* the caller takes the outcome of the call; the next call may begin
Resume ==
    /\ call # NoCall
    /\ call' = NoCall
    /\ UNCHANGED <<timeout, baseline, pending, available_channels, codec>>

Next ==
    \/ Resume
    \/ Action
    \/ Method
    \/ Set
    \/ Read
    \/ WaitOpc
    \/ Acquire
    \/ ScreenshotRaw
    \/ WaveformRaw
    \/ CouplingSetter
    \/ TriggerSourceSetter
    \/ MemoryModeSetter
    \/ TriggerCouplingSetter
    \/ TriggerImpedanceSetter
    \/ TriggerLevelSetter
    \/ SampleRateSetter

Spec == Init /\ [][Next]_vars

TypeOK ==
    /\ timeout \in Int
    /\ pending \in 0..MaxPending
    /\ call.outcome \in {"", "returned", "raised"}

----------------------------------------------------------------------------
(* The codec on its own: a specification whose initial states draw the     *)
(* input of a codec function and whose actions apply the function.         *)

RespChars == {"V", "v", "B", "b", "S", "s", " ", "x"}

\* the response lines of at most MaxLen characters, and three longer ones
Lines ==
    UNION {[1..n -> RespChars] : n \in 0..MaxLen}
    \cup { <<"V","B","S"," ","V","B","S"," ","x">>,
           <<"V","B","S"," ","S","N","1","2","3","4","5">>,
           <<"v","b","s"," "," ","x"," ">> }

CodecValues ==
    { StrV(""), StrV("Auto"), StrV("a b"),
      IntV(0), IntV(5), IntV(-12), IntV(120),
      BoolV(TRUE), BoolV(FALSE),
      FloatV(0), FloatV(2), FloatV(100), FloatV(120), FloatV(5000), FloatV(-1500), FloatV(12345) }

ArgLists == UNION {[1..n -> CodecValues] : n \in 0..MaxArgs}

InitCodec ==
    /\ timeout = 10000
    /\ baseline = timeout
    /\ pending = 0
    /\ available_channels = <<>>
    /\ call = NoCall
    /\ \/ \E l \in Lines : codec = [IdleCodec EXCEPT !.kind = "line", !.line = l]
       \/ \E m \in Methods, a \in ArgLists :
            codec = [IdleCodec EXCEPT !.kind = "args", !.path = m, !.args = a]

CodecUnpack ==
    /\ codec.fn = "" /\ codec.kind = "line"
    /\ codec' = [codec EXCEPT !.fn = "_unpack_response", !.text = _unpack_response(codec.line)]
    /\ UNCHANGED <<timeout, baseline, pending, available_channels, call>>

CodecEscape ==
    /\ codec.fn = "" /\ codec.kind = "args" /\ Len(codec.args) = 1
    /\ codec' = [codec EXCEPT !.fn = "_escape", !.wire = _escape(codec.args[1])]
    /\ UNCHANGED <<timeout, baseline, pending, available_channels, call>>

CodecMethodLine ==
    /\ codec.fn = "" /\ codec.kind = "args"
    /\ codec' = [codec EXCEPT !.fn = "method", !.wire = MethodLine(codec.path, codec.args)]
    /\ UNCHANGED <<timeout, baseline, pending, available_channels, call>>

NextCodec ==
    \/ CodecUnpack
    \/ CodecEscape
    \/ CodecMethodLine

SpecCodec == InitCodec /\ [][NextCodec]_vars

----------------------------------------------------------------------------
(* The claims.  What they expect is written out here on its own: the       *)
(* literal text of each value, the framing prefix, the order of the steps. *)

\* the literal a value is expected to be written as
Literal(v) ==
    CASE v = StrV("") -> "\"\""
      [] v = StrV("Auto") -> "\"Auto\""
      [] v = StrV("a b") -> "\"a b\""
      [] v = IntV(0) -> "0"
      [] v = IntV(5) -> "5"
      [] v = IntV(-12) -> "-12"
      [] v = IntV(120) -> "120"
      [] v = BoolV(TRUE) -> "True"
      [] v = BoolV(FALSE) -> "False"
      [] v = FloatV(0) -> "0.0"
      [] v = FloatV(2) -> "0.002"
      [] v = FloatV(100) -> "0.1"
      [] v = FloatV(120) -> "0.12"
      [] v = FloatV(200) -> "0.2"
      [] v = FloatV(2500) -> "2.5"
      [] v = FloatV(5000) -> "5.0"
      [] v = FloatV(-1500) -> "-1.5"
      [] v = FloatV(12345) -> "12.345"

RECURSIVE LiteralList(_, _)
\* the first n arguments as literals, in call order, ", " between neighbours
LiteralList(args, n) ==
    IF n = 0 THEN ""
    ELSE IF n = 1 THEN Literal(args[1])
    ELSE LiteralList(args, n - 1) \o ", " \o Literal(args[n])

\* the first four characters are VBS and a space, in either letter case
Framed(L) ==
    /\ Len(L) >= 4
    /\ L[1] \in {"V", "v"} /\ L[2] \in {"B", "b"} /\ L[3] \in {"S", "s"} /\ L[4] = " "

\* the line without its first four characters
Unframed(L) == [i \in 1..(Len(L) - 4) |-> L[i + 4]]

Payload(L) == IF Framed(L) THEN Unframed(L) ELSE L

Ops(log) == [i \in 1..Len(log) |-> log[i].op]

IsPrefix(s, t) == Len(s) <= Len(t) /\ \A i \in 1..Len(s) : s[i] = t[i]

ExtendedCall == call.op \in {"method", "acquire"} /\ call.ext # NoneV

\* C1: after a method call with a timeout extension the session timeout
\* equals the timeout before the call, whether the reply was read or the
\* transport write or read failed or timed out; between calls the session
\* timeout therefore equals the baseline.
C1_TimeoutRestoredOnEveryExit ==
    /\ ExtendedCall => timeout = call.pre
    /\ timeout = baseline

\* C2: wait_opc writes *OPC?, reads one reply line and returns normally only
\* for the replies 1 and *OPC 1; for every other reply it raises.
C2_OpcAcceptsOnlyTwoLiterals ==
    (call.op = "wait_opc" /\ Len(call.log) = 2 /\ call.log[2].st = "ok") =>
        /\ call.log[1].op = "write" /\ call.log[1].line = "*OPC?"
        /\ call.log[2].op = "read"
        /\ call.outcome = "returned"
             <=> call.log[2].text \in {<<"1">>, <<"*","O","P","C"," ","1">>}

\* C3: in a method call without a timeout argument the session timeout is
\* never given a value other than the one before the call, is the same at
\* every step and is the same when the call ends, on success and on failure.
C3_NoExtensionTimeoutUntouched ==
    (call.op = "method" /\ call.ext = NoneV) =>
        /\ timeout = call.pre
        /\ \A i \in 1..Len(call.log) :
             /\ call.log[i].tmo = call.pre
             /\ call.log[i].op = "set_timeout" => call.log[i].val = call.pre

C3_Witness ==
    /\ call.op = "method" /\ call.ext = NoneV /\ call.outcome = "returned"
    /\ call.pre # baseline
    /\ \E i \in 1..Len(call.log) : call.log[i].op = "set_timeout"

\* C4: _unpack_response(L) is L without its first four characters when these
\* are VBS and a space in either letter case, and L itself otherwise (shorter
\* and empty lines included); one prefix is removed, VBS VBS x gives VBS x.
C4_UnpackStripsOnePrefix ==
    codec.fn = "_unpack_response" =>
        /\ codec.text = Payload(codec.line)
        /\ codec.line = <<"V","B","S"," ","V","B","S"," ","x">>
             => codec.text = <<"V","B","S"," ","x">>

C4_Witness ==
    /\ codec.fn = "_unpack_response"
    /\ codec.line = <<"v","b","S"," ","x">>
    /\ codec.text = <<"x">>

\* C5: read(p) writes the one line VBS? 'return = p', then reads one reply
\* line and returns it unpacked once; there is no other write or read and
\* the session timeout does not change.
C5_ReadOneRoundTrip ==
    call.op = "read" =>
        /\ IsPrefix(Ops(call.log), <<"write", "read">>) /\ Len(call.log) >= 1
        /\ call.log[1].line = "VBS? 'return = " \o call.path \o "'"
        /\ timeout = call.pre
        /\ \A i \in 1..Len(call.log) : call.log[i].tmo = call.pre
        /\ call.outcome = "returned" =>
             /\ Len(call.log) = 2
             /\ call.rkind = "text" /\ call.rtext = Payload(call.log[2].text)
             /\ call.log[2].text = <<"V","B","S"," ","S","N","1","2","3","4","5">>
                  => call.rtext = <<"S","N","1","2","3","4","5">>

C5_Witness ==
    /\ call.op = "read" /\ call.outcome = "returned"
    /\ call.path = "app.SerialNumber"
    /\ call.log[1].line = "VBS? 'return = app.SerialNumber'"
    /\ call.log[2].text = <<"V","B","S"," ","V","B","S"," ","x">>
    /\ call.rtext = <<"V","B","S"," ","x">>

\* C6: action(s) and set(p, v) write one line each, VBS 's' and
\* VBS 'p = <v as a literal>', read nothing and leave the session timeout
\* and the outstanding replies as they were.
C6_ActionSetWriteOnly ==
    call.op \in {"action", "set"} =>
        /\ Ops(call.log) = <<"write">>
        /\ call.op = "action" => call.log[1].line = "VBS '" \o call.path \o "'"
        /\ call.op = "set" =>
             call.log[1].line = "VBS '" \o call.path \o " = " \o Literal(call.args[1]) \o "'"
        /\ timeout = call.pre
        /\ pending = call.prePending

C6_Witness ==
    /\ call.op = "set" /\ call.outcome = "returned"
    /\ call.log[1].line = "VBS 'app.Acquisition.Horizontal.horscale = 0.002'"
    /\ call.prePending = 1

\* C7: a method call with the extension T installs the timeout before the
\* call plus T, then writes the command line, then reads one reply line under
\* that timeout, then puts the earlier timeout back, then returns the
\* unpacked payload; no write happens before the extended timeout is in force.
C7_ExtendedCallOrder ==
    ExtendedCall =>
        LET T == Millis(call.ext)
            log == call.log
        IN  /\ IsPrefix(Ops(log), <<"set_timeout", "write", "read", "set_timeout">>)
            /\ Len(log) >= 2
            /\ log[1].val = call.pre + T /\ log[1].tmo = call.pre
            /\ \A i \in 2..Len(log) : log[i].tmo = call.pre + T
            /\ Len(log) = 4 => log[4].val = call.pre
            /\ call.outcome = "returned" =>
                 /\ Len(log) = 4
                 /\ timeout = call.pre
                 /\ call.op = "method" => call.rtext = Payload(log[3].text)
                 /\ call.op = "acquire" => call.rbool = (Payload(log[3].text) = <<"1">>)

C7_Witness ==
    /\ call.op = "acquire" /\ call.outcome = "returned"
    /\ call.ext = FloatV(100)
    /\ call.log[1].val = baseline + 100
    /\ call.log[2].line = "VBS? 'return = app.Acquisition.acquire(0.1, False)'"
    /\ call.log[2].tmo = baseline + 100
    /\ call.log[3].text = <<"V","B","S"," ","1">> \/ call.log[3].text = <<"1">>
    /\ call.rbool
    /\ timeout = baseline

\* C8: the line of method(path, a1, ..., an) is VBS? 'return = path(e1, ..., en)'
\* with the arguments as literals in call order, a comma and a space between
\* them, nothing between the parentheses when there is no argument; a text is
\* wrapped in double quotes, false is written False.
C8_MethodLineEncoding ==
    codec.fn = "method" =>
        codec.wire = "VBS? 'return = " \o codec.path \o "("
                         \o LiteralList(codec.args, Len(codec.args)) \o ")'"

C8_Witness ==
    /\ codec.fn = "method"
    /\ codec.args = <<StrV("Auto"), BoolV(FALSE)>>
    /\ codec.wire = "VBS? 'return = app.WaitUntilIdle(\"Auto\", False)'"

\* the line expected on the wire for a source name
WaveformQuery(src) ==
    CASE src = <<"C","1">> -> "C1:WF?"
      [] src = <<"c","1">> -> "c1:WF?"
      [] src = <<"C","2">> -> "C2:WF?"
      [] src = <<"C","3">> -> "C3:WF?"
      [] src = <<"P","1">> -> "P1:WF?"

\* C9: for an available source S, _waveform_raw writes the one raw line
\* S:WF? with S as given, then does one raw read and returns its bytes as
\* they are; no line is read and nothing is unpacked.
C9_WaveformRawRoundTrip ==
    (call.op = "_waveform_raw" /\ InList(Upper(call.src), available_channels)) =>
        /\ IsPrefix(Ops(call.log), <<"write", "read_raw">>) /\ Len(call.log) >= 1
        /\ call.log[1].line = WaveformQuery(call.src)
        /\ call.outcome = "returned" =>
             /\ Len(call.log) = 2
             /\ call.rkind = "raw" /\ call.rraw = call.log[2].raw

C9_Witness ==
    /\ call.op = "_waveform_raw" /\ call.outcome = "returned"
    /\ call.src = <<"c","1">>
    /\ call.log[1].line = "c1:WF?"
    /\ call.rraw = <<86, 66, 83, 32, 0>>

\* C10: _screenshot_raw writes the configuration line, then SCDP, then does
\* one raw read and returns its contents; no read lies between the writes
\* and no write follows the read.
C10_ScreenshotSequence ==
    call.op = "_screenshot_raw" =>
        /\ IsPrefix(Ops(call.log), <<"write", "write", "read_raw">>) /\ Len(call.log) >= 1
        /\ call.log[1].line =
             "HCSU DEV, PNG, FORMAT, PORTRAIT, BCKG, WHITE, DEST, REMOTE, PORT, NET, AREA, GRIDAREAONLY"
        /\ Len(call.log) >= 2 => call.log[2].line = "SCDP"
        /\ call.outcome = "returned" =>
             /\ Len(call.log) = 3
             /\ call.rkind = "raw" /\ call.rraw = call.log[3].raw

C10_Witness ==
    /\ call.op = "_screenshot_raw" /\ call.outcome = "returned"
    /\ Len(call.log) = 3
    /\ call.rraw = <<35, 57, 0, 255>>


\* replies outstanding when entry i of the call's traffic is entered
OutstandingAt(i) == PendingAfter(call.log, i - 1, call.prePending)

\* C11: whenever a line is written, no reply to an earlier command is
\* outstanding; this holds across every sequence of calls, also after a read
\* that ended with a timeout.
C11_NoWriteWhileReplyOutstanding ==
    \A i \in 1..Len(call.log) : call.log[i].op = "write" => OutstandingAt(i) = 0

\* C12: a write, read or raw read that fails or times out ends the call: the
\* failure is the outcome of that call, no transport step follows it, and no
\* line is written twice in one call.
C12_FaultSurfacesNoRetry ==
    call.outcome # "" =>
        /\ \A i \in 1..Len(call.log) :
             call.log[i].st # "ok" =>
                 /\ i = Len(call.log)
                 /\ call.outcome = "raised"
                 /\ call.err = (IF call.log[i].st = "timeout" THEN "timeout" ELSE "transport")
        /\ \A i, j \in 1..Len(call.log) :
             (i < j /\ call.log[i].op = "write" /\ call.log[j].op = "write")
                 => call.log[i].line # call.log[j].line

C12_Witness ==
    /\ call.op = "_screenshot_raw" /\ call.outcome = "raised" /\ call.err = "transport"
    /\ Len(call.log) = 2
    /\ call.log[1].st = "ok" /\ call.log[2].op = "write" /\ call.log[2].st = "fail"


\* the couplings the setter's documentation names, in capitals
DocumentedCouplings == { <<"D","C","5","0">>, <<"D","C","1","M">>, <<"A","C","1","M">>, <<"G","N","D">>, <<"D","C","1","0","0","K">> }

\* a coupling in capitals, as text
CouplingText(c) ==
    CASE Upper(c) = <<"D","C","5","0">> -> "DC50"
      [] Upper(c) = <<"D","C","1","M">> -> "DC1M"
      [] Upper(c) = <<"A","C","1","M">> -> "AC1M"
      [] Upper(c) = <<"G","N","D">> -> "GND"
      [] Upper(c) = <<"D","C","1","0","0","K">> -> "DC100K"
      [] Upper(c) = <<"A","C">> -> "AC"

ChannelText(name) ==
    CASE name = <<"C","1">> -> "C1"
      [] name = <<"C","2">> -> "C2"

\* C13: the coupling setter takes DC50, DC1M, AC1M, GND and DC100k in any
\* letter case and then writes one action line that assigns the coupling in
\* capitals to the channel's Coupling; any other value raises Invalid Coupling
\* and nothing is written.
C13_CouplingAcceptsDocumented ==
    call.op = "coupling" =>
        IF Upper(call.val) \in DocumentedCouplings
        THEN /\ Ops(call.log) = <<"write">>
             /\ call.log[1].line = "VBS 'app.acquisition." \o ChannelText(call.src)
                                     \o ".Coupling = \"" \o CouplingText(call.val) \o "\"'"
             /\ call.err # "Invalid Coupling"
        ELSE /\ call.outcome = "raised" /\ call.err = "Invalid Coupling"
             /\ call.log = <<>>


ValidatingSetters ==
    {"trigger_source", "memory_mode", "trigger_coupling", "trigger_impedance", "trigger_level"}

\* the trigger source the call read, when its query was answered
SourceRead == Len(call.log) >= 2 /\ call.log[2].op = "read" /\ call.log[2].st = "ok"

\* a name in capitals is EXT or one of the available channels
TriggerCapable(name) ==
    name = <<"E","X","T">> \/ \E i \in 1..Len(available_channels) : available_channels[i] = name

\* the value given or the trigger source read fails the setter's validation
Rejected ==
    CASE call.op = "trigger_source" ->
           ~(Upper(call.val) = <<"L","I","N","E">> \/ TriggerCapable(Upper(call.val)))
      [] call.op = "memory_mode" ->
           Upper(call.val) \notin {<<"S","E","T","M","A","X","I","M","U","M","M","E","M","O","R","Y">>,
                                   <<"F","I","X","E","D","S","A","M","P","L","E","R","A","T","E">>}
      [] call.op = "trigger_coupling" ->
           SourceRead /\ (~TriggerCapable(Upper(Payload(call.log[2].text)))
                          \/ Upper(call.val) \notin {<<"D","C">>, <<"A","C">>, <<"L","F","R","E","J">>, <<"H","F","R","E","J">>})
      [] call.op = "trigger_impedance" ->
           SourceRead /\ (~TriggerCapable(Upper(Payload(call.log[2].text)))
                          \/ Upper(call.val) \notin {<<"5","0">>, <<"1","M">>})
      [] call.op = "trigger_level" ->
           SourceRead /\ ~TriggerCapable(Upper(Payload(call.log[2].text)))

\* C14: when the value or the current trigger source fails the validation of
\* trigger_source, memory_mode, trigger_coupling, trigger_impedance or
\* trigger_level, the call raises and has written no assignment or action
\* line; the query of the trigger source is its only traffic.
C14_RejectedValueSendsNothing ==
    (call.op \in ValidatingSetters /\ Rejected) =>
        /\ call.outcome = "raised"
        /\ call.err \notin {"transport", "timeout"}
        /\ \A i \in 1..Len(call.log) :
             call.log[i].op = "write" =>
                 /\ i = 1
                 /\ call.op \in {"trigger_coupling", "trigger_impedance", "trigger_level"}
                 /\ call.log[i].line = "VBS? 'return = app.Acquisition.Trigger.Source'"

C14_Witness ==
    /\ call.op = "trigger_coupling" /\ call.err = "Trigger Coupling not valid"
    /\ call.val = <<"G","N","D">>
    /\ Ops(call.log) = <<"write", "read">>
    /\ call.log[2].text = <<"c","1">>


\* the number a sample-rate reply reports, in thousandths; -1: not a number
Reported(text) ==
    CASE text = <<"5">> -> 5000
      [] text = <<"5",".","0">> -> 5000
      [] text = <<"2",".","5">> -> 2500
      [] text = <<" ","2",".","5","0">> -> 2500
      [] text = <<"1","0">> -> 10000
      [] OTHER -> -1

\* the sample rate asked for, in thousandths
Requested(v) == CASE v = IntV(5) -> 5000 [] v = FloatV(2500) -> 2500

\* C15: the sample_rate setter first assigns "FIXEDSAMPLERATE" to maximize,
\* then the value to samplerate, then queries samplerate once; it raises
\* Invalid Sample Rate exactly when the value read back differs from the one
\* asked for, and both assignments have been sent by then.
C15_SampleRateOrder ==
    call.op = "sample_rate" =>
        LET log == call.log IN
        /\ IsPrefix(Ops(log), <<"write", "write", "write", "read">>) /\ Len(log) >= 1
        /\ log[1].line = "VBS 'app.Acquisition.Horizontal.maximize = \"FIXEDSAMPLERATE\"'"
        /\ Len(log) >= 2 =>
             log[2].line = "VBS 'app.Acquisition.Horizontal.samplerate = "
                             \o Literal(call.args[1]) \o "'"
        /\ Len(log) >= 3 => log[3].line = "VBS? 'return = app.Acquisition.Horizontal.samplerate'"
        /\ call.err = "Invalid Sample Rate" <=>
             /\ Len(log) = 4 /\ log[4].st = "ok"
             /\ Reported(Payload(log[4].text)) # -1
             /\ Reported(Payload(log[4].text)) # Requested(call.args[1])
        /\ call.err = "Invalid Sample Rate" =>
             /\ call.outcome = "raised"
             /\ log[1].st = "ok" /\ log[2].st = "ok"
        /\ call.outcome = "returned" =>
             /\ Len(log) = 4
             /\ Reported(Payload(log[4].text)) = Requested(call.args[1])

C15_Witness ==
    /\ call.op = "sample_rate" /\ call.err = "Invalid Sample Rate"
    /\ call.args = <<FloatV(2500)>>
    /\ call.log[2].line = "VBS 'app.Acquisition.Horizontal.samplerate = 2.5'"
    /\ call.log[4].text = <<"V","B","S"," ","5">>


\* the channel names that are elements of available_channels, as wire text
WireNames == { ChannelText(available_channels[i]) : i \in 1..Len(available_channels) }

\* C16: whenever waveform capture writes S:WF?, the name S on the wire is an
\* element of available_channels; a source that fails check_source raises
\* Channel not available and nothing is written or read.
C16_WireNameIsAvailableChannel ==
    call.op = "_waveform_raw" =>
        /\ \A i \in 1..Len(call.log) :
             call.log[i].op = "write" =>
               \E name \in WireNames : call.log[i].line = name \o ":WF?"
        /\ ~InList(Upper(call.src), available_channels) =>
             /\ call.outcome = "raised" /\ call.err = "Channel not available"
             /\ call.log = <<>>

\* C16 as amended: whenever waveform capture writes S:WF?, S is the source as
\* the caller gave it and S in capitals is an element of available_channels;
\* a source that fails check_source raises Channel not available and nothing
\* is written or read.
C16_WireNameInCapitalsIsAvailable ==
    call.op = "_waveform_raw" =>
        /\ \A i \in 1..Len(call.log) :
             call.log[i].op = "write" =>
               /\ call.log[i].line = WaveformQuery(call.src)
               /\ InList(Upper(call.src), available_channels)
        /\ ~InList(Upper(call.src), available_channels) =>
             /\ call.outcome = "raised" /\ call.err = "Channel not available"
             /\ call.log = <<>>

C16_Witness ==
    /\ call.op = "_waveform_raw" /\ call.src = <<"c", "1">>
    /\ InList(<<"C", "1">>, available_channels)
    /\ Len(call.log) = 2 /\ call.log[1].line = "c1:WF?" /\ call.log[1].st = "ok"
    /\ call.outcome = "returned"

====
